---- MODULE Spec2Model ----
(***************************************************************************)
(* A model of the Gopher browser of src/gopher_browser.cpp: the protocol   *)
(* parser, the navigation controller (current page, selection, history)    *)
(* and the event handlers that drive it.                                    *)
(*                                                                          *)
(* A std::string is a sequence of one-character strings.  The value        *)
(* fetch_gopher returns to navigate_to / go_back is an input of the        *)
(* handler that makes the call (the empty sequence is the failed fetch).   *)
(* The program is single threaded and fetch_gopher blocks, so one handler  *)
(* is one step.                                                             *)
(*                                                                          *)
(* Events that change none of this state are left out: EVT_INIT (font),    *)
(* KEY_MENU and a tap on the header (they open the bookmark menu, whose     *)
(* choice is bookmark_menu_handler), EVT_POINTERDOWN / EVT_POINTERMOVE      *)
(* (they classify the gesture EVT_POINTERUP ends; the time between taps is  *)
(* the input quick), KEY_BACK and EVT_EXIT (the application closes).        *)
(* scroll_page is called from nowhere.                                      *)
(*                                                                          *)
(* fetch_gopher is modelled a second time on its own (SpecFetch), one step *)
(* per blocking system call, with the peer and the network as the           *)
(* environment; there the bytes are counted, not stored.  The parsers are  *)
(* applied on their own to every short string of two alphabets (SpecParse). *)
(***************************************************************************)
EXTENDS Integers, Sequences, FiniteSets, TLC

VARIABLES
    current_page,        \* GopherPage: host, selector, port, items, raw_text, is_menu
    history,             \* std::vector<HistoryEntry>
    scroll_offset,
    selected_index,
    visible_lines,
    is_loading,
    status_message,
    search_pending,
    pending_search_item,
    initial_load_done,
    last_tap_index,
    last_event,          \* what the most recent handler did to the outside world
    fetch_call,          \* a call of fetch_gopher followed system call by system call
    parse_call,          \* a call of one of the parsers on its own: argument and result
    shown                \* when followed: the address the content on display was loaded from

vars == <<current_page, history, scroll_offset, selected_index, visible_lines,
          is_loading, status_message, search_pending, pending_search_item,
          initial_load_done, last_tap_index, last_event, fetch_call, parse_call, shown>>

----------------------------------------------------------------------------
(* Constants of the program *)

kFontSize == 14
kTitleFontSize == 20
kLineHeight == kFontSize + 4
kMaxHistory == 50
kDefaultGopherPort == 70
kScreenMargin == 1
kFooterHeight == 30
kMaxResponseSize == 512 * 1024

kDefaultHost == <<"g", "o", "p", "h", "e", "r", ".", "f", "l", "o", "o", "d", "g", "a", "p", ".", "c", "o", "m">>
kDefaultSelector == <<"/">>

GOPHER_TEXT == "0"
GOPHER_MENU == "1"
GOPHER_CSO == "2"
GOPHER_ERROR == "3"
GOPHER_BINHEX == "4"
GOPHER_DOS == "5"
GOPHER_UUENCODE == "6"
GOPHER_SEARCH == "7"
GOPHER_TELNET == "8"
GOPHER_BINARY == "9"
GOPHER_REDUNDANT == "+"
GOPHER_TN3270 == "T"
GOPHER_GIF == "g"
GOPHER_IMAGE == "I"
GOPHER_INFO == "i"
GOPHER_HTML == "h"
GOPHER_SOUND == "s"
GOPHER_DOC == "d"

(* The type of a default-constructed static GopherItem ('\0'). *)
NUL == "NUL"

----------------------------------------------------------------------------
(* Bounds of the model *)

(* Number of item lines the device's screen shows (ScreenHeight() in lines). *)
ScreenLines == 2

(* Navigation depth explored by Spec: handlers that navigate are taken only  *)
(* while the history holds fewer entries than this.                          *)
MaxDepth == 2

(* Number of chunks with a zero byte the peer sends during one fetch. *)
MaxNulChunks == 2

(* Length of the responses, and of the lines with a port field, the parsers  *)
(* are applied to on their own.                                              *)
MaxResponseLen == 5
MaxLineLen == 6

----------------------------------------------------------------------------
(* Utility functions *)

Last(s) == s[Len(s)]
Front(s) == SubSeq(s, 1, Len(s) - 1)

IsSpace(c) == c \in {" ", "\t", "\r", "\n"}

RECURSIVE find_first_not_space(_, _)
find_first_not_space(s, i) ==
    IF i > Len(s) THEN 0
    ELSE IF ~IsSpace(s[i]) THEN i
    ELSE find_first_not_space(s, i + 1)

RECURSIVE find_last_not_space(_, _)
find_last_not_space(s, i) ==
    IF i < 1 THEN 0
    ELSE IF ~IsSpace(s[i]) THEN i
    ELSE find_last_not_space(s, i - 1)

trim(s) ==
    LET start == find_first_not_space(s, 1)
        end == find_last_not_space(s, Len(s))
    IN  IF start = 0 THEN <<>> ELSE SubSeq(s, start, end)

RECURSIVE split_loop(_, _, _, _, _)
split_loop(s, delim, i, token, result) ==
    IF i > Len(s) THEN Append(result, token)
    ELSE IF s[i] = delim THEN split_loop(s, delim, i + 1, <<>>, Append(result, token))
    ELSE split_loop(s, delim, i + 1, Append(token, s[i]), result)

split(s, delim) == split_loop(s, delim, 1, <<>>, <<>>)

Digits == <<"0", "1", "2", "3", "4", "5", "6", "7", "8", "9">>
IsDigit(c) == \E d \in 1..10 : Digits[d] = c
DigitVal(c) == (CHOOSE d \in 1..10 : Digits[d] = c) - 1

RECURSIVE atoi_digits(_, _, _)
atoi_digits(s, i, acc) ==
    IF i > Len(s) \/ ~IsDigit(s[i]) THEN acc
    ELSE atoi_digits(s, i + 1, acc * 10 + DigitVal(s[i]))

(* atoi: leading white space, an optional sign, then the leading digits.    *)
atoi(s) ==
    LET start == find_first_not_space(s, 1)
    IN  IF start = 0 THEN 0
        ELSE IF s[start] = "-" THEN 0 - atoi_digits(s, start + 1, 0)
        ELSE IF s[start] = "+" THEN atoi_digits(s, start + 1, 0)
        ELSE atoi_digits(s, start, 0)

----------------------------------------------------------------------------
(* Data structures *)

(* is_selectable without the test for GOPHER_ERROR *)
is_selectable_error(item) ==
    /\ item.type # GOPHER_INFO
    /\ item.type # "+"
    /\ item.type # GOPHER_CSO
    /\ item.type # GOPHER_TELNET
    /\ item.type # GOPHER_TN3270

is_selectable(item) ==
    /\ item.type # GOPHER_INFO
    /\ item.type # GOPHER_ERROR
    /\ item.type # "+"
    /\ item.type # GOPHER_CSO
    /\ item.type # GOPHER_TELNET
    /\ item.type # GOPHER_TN3270

HistoryEntry(host, selector, port) ==
    [host |-> host, selector |-> selector, port |-> port]

----------------------------------------------------------------------------
(* Gopher protocol parsing *)

parse_gopher_line(line) ==
    IF line = <<>>
    THEN [type |-> GOPHER_INFO, display |-> <<>>, selector |-> <<>>, host |-> <<>>,
          port |-> kDefaultGopherPort]
    ELSE LET rest == SubSeq(line, 2, Len(line))
             parts == split(rest, "\t")
             port_str == IF Len(parts) >= 4 THEN trim(parts[4]) ELSE <<>>
             port_num == IF port_str # <<>> THEN atoi(port_str) ELSE kDefaultGopherPort
         IN  [type |-> line[1],
              display |-> IF Len(parts) >= 1 THEN parts[1] ELSE <<>>,
              selector |-> IF Len(parts) >= 2 THEN parts[2] ELSE <<>>,
              host |-> IF Len(parts) >= 3 THEN parts[3] ELSE <<>>,
              port |-> IF port_num <= 0 THEN kDefaultGopherPort ELSE port_num]

(* "Remove trailing CR if present" *)
strip_cr(line) ==
    IF line # <<>> /\ Last(line) = "\r" THEN Front(line) ELSE line

(* The for loop of parse_gopher_menu: the pending line and the items when it *)
(* ends (at the end of the response or at the end marker).                   *)
RECURSIVE parse_menu_loop(_, _, _, _)
parse_menu_loop(response, i, line, items) ==
    IF i > Len(response) THEN [line |-> line, items |-> items]
    ELSE IF response[i] = "\n"
         THEN LET l == strip_cr(line)
              IN  IF l = <<".">> THEN [line |-> l, items |-> items]
                  ELSE parse_menu_loop(response, i + 1, <<>>,
                           IF l # <<>> THEN Append(items, parse_gopher_line(l)) ELSE items)
         ELSE parse_menu_loop(response, i + 1, Append(line, response[i]), items)

(* The items parse_gopher_menu leaves in page.items: the loop, then "Handle  *)
(* last line if no newline at end".                                          *)
menu_items(response) ==
    LET r == parse_menu_loop(response, 1, <<>>, <<>>)
    IN  IF r.line # <<>> /\ r.line # <<".">>
        THEN Append(r.items, parse_gopher_line(r.line))
        ELSE r.items

(* parse_gopher_menu without page.is_menu = true *)
parse_gopher_menu_flag_unset(response, page) ==
    [page EXCEPT !.items = menu_items(response)]

parse_gopher_menu(response, page) ==
    [page EXCEPT !.items = menu_items(response), !.is_menu = TRUE]

(* An item of parse_text_file: "GopherItem item;" sets type and display and  *)
(* leaves port uninitialised: junk is the indeterminate value it holds.      *)
(* (Callers that pass GOPHER_MENU to navigate_to never reach it and pass 0.) *)
text_item(line, junk) ==
    [type |-> GOPHER_INFO, display |-> line, selector |-> <<>>, host |-> <<>>,
     port |-> junk]

RECURSIVE parse_text_loop(_, _, _, _, _)
parse_text_loop(response, i, line, items, junk) ==
    IF i > Len(response) THEN [line |-> line, items |-> items]
    ELSE IF response[i] = "\n"
         THEN LET l == strip_cr(line)
              IN  IF l = <<".">> THEN [line |-> l, items |-> items]
                  ELSE parse_text_loop(response, i + 1, <<>>,
                                       Append(items, text_item(l, junk)), junk)
         ELSE parse_text_loop(response, i + 1, Append(line, response[i]), items, junk)

parse_text_file(response, page, junk) ==
    LET r == parse_text_loop(response, 1, <<>>, <<>>, junk)
        items == IF r.line # <<>> /\ r.line # <<".">>
                 THEN Append(r.items, text_item(r.line, junk))
                 ELSE r.items
    IN  [page EXCEPT !.items = items, !.is_menu = FALSE, !.raw_text = response]

----------------------------------------------------------------------------
(* Application state *)

(* The program's globals as one record, so that a function of the program   *)
(* is an operator from the state before the call to the state after it.     *)
St ==
    [current_page |-> current_page, history |-> history,
     scroll_offset |-> scroll_offset, selected_index |-> selected_index,
     visible_lines |-> visible_lines, is_loading |-> is_loading,
     status_message |-> status_message, search_pending |-> search_pending,
     pending_search_item |-> pending_search_item,
     initial_load_done |-> initial_load_done, last_tap_index |-> last_tap_index,
     last_event |-> last_event]

(* shown, while not followed (on is false, as in every specification but    *)
(* SpecBack): no page is on display.                                         *)
NoShown ==
    [on |-> FALSE, loaded |-> FALSE,
     address |-> HistoryEntry(<<>>, <<>>, 0),
     before |-> [loaded |-> FALSE, address |-> HistoryEntry(<<>>, <<>>, 0),
                 history |-> <<>>]]

(* shown after a handler that leaves the state t: the content on display is  *)
(* replaced when the handler's fetch returned a response (navigate_to and    *)
(* go_back parse it into current_page), and stays otherwise; before is what  *)
(* was on display, and the history, when the handler started.                *)
Track(t) ==
    IF ~shown.on THEN shown
    ELSE LET loaded == /\ t.last_event.fetches # <<>>
                       /\ t.last_event.fetches[1].response # <<>>
         IN  [on |-> TRUE,
              loaded |-> shown.loaded \/ loaded,
              address |-> IF loaded
                          THEN HistoryEntry(t.current_page.host, t.current_page.selector,
                                            t.current_page.port)
                          ELSE shown.address,
              before |-> [loaded |-> shown.loaded, address |-> shown.address,
                          history |-> history]]

(* The globals after a handler that leaves the state s. *)
Commit(s) ==
    \E t \in {s} :
        /\ current_page' = t.current_page
        /\ history' = t.history
        /\ scroll_offset' = t.scroll_offset
        /\ selected_index' = t.selected_index
        /\ visible_lines' = t.visible_lines
        /\ is_loading' = t.is_loading
        /\ status_message' = t.status_message
        /\ search_pending' = t.search_pending
        /\ pending_search_item' = t.pending_search_item
        /\ initial_load_done' = t.initial_load_done
        /\ last_tap_index' = t.last_tap_index
        /\ last_event' = t.last_event
        /\ fetch_call' = fetch_call
        /\ parse_call' = parse_call
        /\ shown' = Track(t)

(* last_event: what the handler that ran last did: the fetch_gopher calls it *)
(* made (arguments, returned response, is_loading and selected_index during  *)
(* the call), what                                                           *)
(* go_back returned, the expected_type navigate_to was called with and the   *)
(* Message dialog it showed, the direction move_selection was called with   *)
(* (0: not called), the selected_index follow_link was entered with (-2: not *)
(* called) and the text search_keyboard_handler was handed.                  *)
NewEvent ==
    [fetches |-> <<>>, go_back |-> "none", expected_type |-> "none", message |-> "",
     direction |-> 0, follow |-> -2,
     keyboard |-> [called |-> FALSE, null |-> FALSE, chars |-> <<>>]]

Enter(s) == [s EXCEPT !.last_event = NewEvent]

(* No call of fetch_gopher is followed. *)
NoCall ==
    [pc |-> "none", connects |-> 0, received |-> 0, nul_chunks |-> 0, response |-> 0,
     outcome |-> "", result |-> 0]

(* No parser is called on its own. *)
NoParse ==
    [op |-> "none", input |-> <<>>,
     item |-> [type |-> NUL, display |-> <<>>, selector |-> <<>>, host |-> <<>>, port |-> 0]]

(* Static storage is zero-initialised; std::string members are empty. *)
InitGlobals ==
    /\ current_page = [host |-> <<>>, selector |-> <<>>, port |-> 0, items |-> <<>>,
                       raw_text |-> <<>>, is_menu |-> FALSE]
    /\ history = <<>>
    /\ scroll_offset = 0
    /\ selected_index = -1
    /\ visible_lines = 0
    /\ is_loading = FALSE
    /\ status_message = ""
    /\ search_pending = FALSE
    /\ pending_search_item = [type |-> NUL, display |-> <<>>, selector |-> <<>>,
                              host |-> <<>>, port |-> 0]
    /\ initial_load_done = FALSE
    /\ last_tap_index = -1
    /\ last_event = NewEvent
    /\ fetch_call = NoCall

Init == InitGlobals /\ parse_call = NoParse /\ shown = NoShown

set_status(s, msg) == [s EXCEPT !.status_message = msg]

(* The call of fetch_gopher in navigate_to and go_back: response is what it  *)
(* returns.                                                                  *)
fetch_gopher(s, host, selector, port, response) ==
    [s EXCEPT !.last_event.fetches =
        Append(@, [host |-> host, selector |-> selector, port |-> port,
                   response |-> response, is_loading |-> s.is_loading,
                   selected_index |-> s.selected_index])]

----------------------------------------------------------------------------
(* Navigation *)

(* "Limit history size": while (history.size() > kMaxHistory) erase(begin()) *)
(* limit_history dropping the newest entries instead of the oldest *)
limit_history_newest(h) ==
    IF Len(h) > kMaxHistory THEN SubSeq(h, 1, kMaxHistory) ELSE h

RECURSIVE limit_history(_)
limit_history(h) ==
    IF Len(h) > kMaxHistory THEN limit_history(Tail(h)) ELSE h

push_history(s) ==
    LET entry == HistoryEntry(s.current_page.host, s.current_page.selector,
                              s.current_page.port)
    IN  [s EXCEPT !.history = limit_history(Append(@, entry))]

(* "Find first selectable item": the loop of navigate_to and go_back, from   *)
(* selected_index = -1.                                                      *)
RECURSIVE first_selectable_from(_, _)
first_selectable_from(items, i) ==
    IF i > Len(items) THEN -1
    ELSE IF is_selectable(items[i]) THEN i - 1
    ELSE first_selectable_from(items, i + 1)

(* find_first_selectable selecting the first item, selectable or not *)
find_first_selectable_first(items) == IF items = <<>> THEN -1 ELSE 0

find_first_selectable(items) == first_selectable_from(items, 1)

(* The part of navigate_to and go_back after a non-empty response is parsed. *)
page_loaded(s) ==
    set_status([s EXCEPT !.scroll_offset = 0,
                         !.selected_index = find_first_selectable(s.current_page.items)],
               "")

(* load_failed reached with is_loading still set *)
load_failed_loading(s) ==
    [set_status(s, "Failed to load page") EXCEPT !.is_loading = TRUE]

(* load_failed with the response parsed before it is tested *)
load_failed_parsed(s) ==
    set_status([s EXCEPT !.current_page = parse_gopher_menu(<<>>, @)],
               "Failed to load page")

(* if (response.empty()) { set_status("Failed to load page"); return; }      *)
(* in navigate_to, and the same lines of go_back.                            *)
load_failed(s) == set_status(s, "Failed to load page")

(* go_back_empty with the selection reset before the test *)
go_back_empty_resets(s) ==
    [s EXCEPT !.selected_index = -1, !.scroll_offset = 0, !.last_event.go_back = "false"]

(* go_back: if (history.empty()) return false; *)
go_back_empty(s) == [s EXCEPT !.last_event.go_back = "false"]

(* history_back taking the oldest entry *)
history_front(h) == Head(h)

(* go_back: HistoryEntry entry = history.back(); *)
history_back(h) == Last(h)

(* go_back_parse choosing the text parser *)
go_back_parse_text(response, page) == parse_text_file(response, page, 0)

(* go_back: parse_gopher_menu(response, current_page); *)
go_back_parse(response, page) == parse_gopher_menu(response, page)

go_back(s, response) ==
    IF s.history = <<>>
    THEN go_back_empty(s)
    ELSE LET entry == history_back(s.history)
             s1 == [s EXCEPT !.history = Front(@),
                             !.current_page.host = entry.host,
                             !.current_page.selector = entry.selector,
                             !.current_page.port = entry.port]
             s2 == [set_status(s1, "Loading...") EXCEPT !.is_loading = TRUE]
             s3 == fetch_gopher(s2, entry.host, entry.selector, entry.port, response)
             s4 == [s3 EXCEPT !.is_loading = FALSE]
         IN  IF response = <<>>
             THEN [load_failed(s4) EXCEPT !.last_event.go_back = "false"]
             ELSE [page_loaded([s4 EXCEPT !.current_page = go_back_parse(response, @)])
                   EXCEPT !.last_event.go_back = "true"]

navigate_to(s, host, selector, port, expected_type, response, junk) ==
    LET s0 == [s EXCEPT !.last_event.expected_type = expected_type]
        s1 == IF s0.current_page.host # <<>> THEN push_history(s0) ELSE s0
        s2 == [s1 EXCEPT !.current_page.host = host,
                         !.current_page.selector = selector,
                         !.current_page.port = port]
        s3 == [set_status(s2, "Connecting...") EXCEPT !.is_loading = TRUE]
        s4 == fetch_gopher(s3, host, selector, port, response)
        s5 == [s4 EXCEPT !.is_loading = FALSE]
    IN  IF response = <<>>
        THEN load_failed(s5)
        ELSE IF expected_type = GOPHER_TEXT \/ expected_type = GOPHER_HTML
             THEN page_loaded([s5 EXCEPT !.current_page =
                                  parse_text_file(response, @, junk)])
             ELSE page_loaded([s5 EXCEPT !.current_page =
                                  parse_gopher_menu(response, @)])

----------------------------------------------------------------------------
(* Display *)

(* header_height as draw_screen computes it: margin, title line, path line   *)
(* and separator.                                                            *)
header_height == kScreenMargin + (kTitleFontSize + 2) + (kFontSize + 2) + 4

(* ScreenHeight() of the device, for a screen of ScreenLines item lines. *)
ScreenHeight == header_height + kFooterHeight + kScreenMargin + ScreenLines * kLineHeight

draw_screen(s) ==
    [s EXCEPT !.visible_lines =
        (ScreenHeight - header_height - kFooterHeight - kScreenMargin) \div kLineHeight]

----------------------------------------------------------------------------
(* Search and link following *)

(* std::string search_selector = pending_search_item.selector + "\t" + text; *)
build_search_selector(selector, text) == selector \o <<"\t">> \o text

(* search_cancelled leaving the search pending *)
search_cancelled_pending(s) == draw_screen(s)

(* "User cancelled or entered empty string": search_pending = false;         *)
(* draw_screen(); return;                                                    *)
search_cancelled(s) == draw_screen([s EXCEPT !.search_pending = FALSE])

(* text: the string the keyboard hands over; text.null is the NULL pointer. *)
search_keyboard_handler(s0, text, response) ==
    LET s == [s0 EXCEPT !.last_event.keyboard =
                  [called |-> TRUE, null |-> text.null, chars |-> text.chars]]
    IN  IF text.null \/ text.chars = <<>>
        THEN search_cancelled(s)
        ELSE LET search_selector == build_search_selector(s.pending_search_item.selector,
                                                          text.chars)
                 s1 == navigate_to(s, s.pending_search_item.host, search_selector,
                                   s.pending_search_item.port, GOPHER_MENU, response, 0)
             IN  draw_screen([s1 EXCEPT !.search_pending = FALSE])

initiate_search(s, item) ==
    [s EXCEPT !.pending_search_item = item, !.search_pending = TRUE]

(* BinaryTypes with GOPHER_DOC among the kinds that cannot be displayed *)
BinaryTypesAndDoc ==
    {GOPHER_BINARY, GOPHER_IMAGE, GOPHER_GIF, GOPHER_SOUND, GOPHER_DOS,
     GOPHER_BINHEX, GOPHER_UUENCODE, GOPHER_DOC}

BinaryTypes ==
    {GOPHER_BINARY, GOPHER_IMAGE, GOPHER_GIF, GOPHER_SOUND, GOPHER_DOS,
     GOPHER_BINHEX, GOPHER_UUENCODE}

(* follow_link showing the dialog and dropping the selection *)
binary_message_deselects(s) ==
    [s EXCEPT !.last_event.message = "Binary files cannot be displayed",
              !.selected_index = -1]

(* Message(ICON_INFORMATION, "Info", "Binary files cannot be displayed", 2000) *)
binary_message(s) ==
    [s EXCEPT !.last_event.message = "Binary files cannot be displayed"]

follow_link(s0, response, junk) ==
    LET s == [s0 EXCEPT !.last_event.follow = s0.selected_index] IN
    IF s.selected_index < 0 \/ s.selected_index >= Len(s.current_page.items)
    THEN s
    ELSE LET item == s.current_page.items[s.selected_index + 1]
         IN  IF ~is_selectable(item) THEN s
             ELSE IF item.type = GOPHER_MENU
                  THEN navigate_to(s, item.host, item.selector, item.port,
                                   GOPHER_MENU, response, junk)
             ELSE IF item.type = GOPHER_SEARCH
                  THEN initiate_search(s, item)
             ELSE IF item.type \in {GOPHER_TEXT, GOPHER_HTML}
                  THEN navigate_to(s, item.host, item.selector, item.port,
                                   GOPHER_TEXT, response, junk)
             ELSE IF item.type \in BinaryTypes
                  THEN binary_message(s)
             ELSE navigate_to(s, item.host, item.selector, item.port,
                              GOPHER_MENU, response, junk)

----------------------------------------------------------------------------
(* Input handling *)

(* while (new_index >= 0 && new_index < items_count): the index of the first *)
(* selectable item met, or -1.                                               *)
RECURSIVE scan_direction(_, _, _)
scan_direction(items, new_index, direction) ==
    IF ~(new_index >= 0 /\ new_index < Len(items)) THEN -1
    ELSE IF is_selectable(items[new_index + 1]) THEN new_index
    ELSE scan_direction(items, new_index + direction, direction)

(* scan_from_start finding nothing: move_selection without the wrap to the  *)
(* start                                                                     *)
scan_from_start_none(items, i, limit) == -1

(* for (int i = from; i < limit; i++) *)

RECURSIVE scan_from_start(_, _, _)
scan_from_start(items, i, limit) ==
    IF ~(i < limit) THEN -1
    ELSE IF is_selectable(items[i + 1]) THEN i
    ELSE scan_from_start(items, i + 1, limit)

(* for (int i = from; i > limit; i--) *)
RECURSIVE scan_from_end(_, _, _)
scan_from_end(items, i, limit) ==
    IF ~(i > limit) THEN -1
    ELSE IF is_selectable(items[i + 1]) THEN i
    ELSE scan_from_end(items, i - 1, limit)

move_selection(s0, direction) ==
    LET s == [s0 EXCEPT !.last_event.direction = direction]
        items == s.current_page.items
        items_count == Len(items)
        found == scan_direction(items, s.selected_index + direction, direction)
        wrap_up == scan_from_start(items, 0, s.selected_index)
        wrap_down == scan_from_end(items, items_count - 1, s.selected_index)
    IN  IF items_count = 0 THEN s
        ELSE IF found >= 0
        THEN draw_screen([s EXCEPT
                 !.selected_index = found,
                 !.scroll_offset =
                     IF found < s.scroll_offset THEN found
                     ELSE IF found >= s.scroll_offset + s.visible_lines
                          THEN found - s.visible_lines + 1
                          ELSE @])
        ELSE IF direction > 0
        THEN IF wrap_up >= 0
             THEN draw_screen([s EXCEPT !.selected_index = wrap_up, !.scroll_offset = 0])
             ELSE s
        ELSE IF wrap_down >= 0
             THEN draw_screen([s EXCEPT
                      !.selected_index = wrap_down,
                      !.scroll_offset = IF wrap_down - s.visible_lines + 1 < 0 THEN 0
                                        ELSE wrap_down - s.visible_lines + 1])
             ELSE s

Bookmarks ==
    <<[host |-> kDefaultHost, selector |-> <<"/">>],
      [host |-> <<"s", "d", "f", ".", "o", "r", "g">>, selector |-> <<"/">>],
      [host |-> <<"g", "o", "p", "h", "e", "r", "p", "e", "d", "i", "a", ".", "c", "o", "m">>,
       selector |-> <<"/">>],
      [host |-> kDefaultHost, selector |-> <<"/", "v", "2", "/", "v", "s">>]>>

bookmark_menu_handler(s, index, response) ==
    IF index \in 0..3
    THEN draw_screen(navigate_to(s, Bookmarks[index + 1].host, Bookmarks[index + 1].selector,
                                 70, GOPHER_MENU, response, 0))
    ELSE draw_screen(s)

(* handle_key, case KEY_LEFT / KEY_PREV *)
handle_key_prev(s, response) ==
    LET s1 == go_back(s, response)
    IN  draw_screen(IF s1.last_event.go_back = "false"
                    THEN [s1 EXCEPT !.last_event.message = "No more history"]
                    ELSE s1)

(* handle_key, case KEY_RIGHT / KEY_NEXT *)
handle_key_next(s, response, junk) ==
    LET s1 == follow_link(s, response, junk)
    IN  IF ~s1.search_pending THEN draw_screen(s1) ELSE s1

(* main_handler, case EVT_SHOW *)
evt_show(s, response) ==
    IF ~s.initial_load_done
    THEN draw_screen([navigate_to(s, kDefaultHost, kDefaultSelector, kDefaultGopherPort,
                                  GOPHER_MENU, response, 0)
                      EXCEPT !.initial_load_done = TRUE])
    ELSE draw_screen(s)

(* main_handler, case EVT_POINTERUP, a swipe of swipe_lines lines *)
pointer_up_swipe(s, swipe_lines) ==
    IF swipe_lines # 0
    THEN LET items_count == Len(s.current_page.items)
             max_scroll == IF items_count - s.visible_lines < 0 THEN 0
                           ELSE items_count - s.visible_lines
             moved == s.scroll_offset + swipe_lines
         IN  draw_screen([s EXCEPT !.scroll_offset =
                             IF moved < 0 THEN IF 0 > max_scroll THEN max_scroll ELSE 0
                             ELSE IF moved > max_scroll THEN max_scroll ELSE moved])
    ELSE s

(* main_handler, case EVT_POINTERUP, a tap in the content area on screen     *)
(* line row; quick: less than kDoubleTapTime after the last single tap.      *)
pointer_up_tap(s, row, quick, response, junk) ==
    LET line_index == s.scroll_offset + row
    IN  IF line_index >= 0 /\ line_index < Len(s.current_page.items)
           /\ is_selectable(s.current_page.items[line_index + 1])
        THEN IF line_index = s.last_tap_index /\ quick
             THEN LET s1 == follow_link([s EXCEPT !.selected_index = line_index],
                                        response, junk)
                      s2 == IF ~s1.search_pending THEN draw_screen(s1) ELSE s1
                  IN  [s2 EXCEPT !.last_tap_index = -1]
             ELSE draw_screen([s EXCEPT !.selected_index = line_index,
                                        !.last_tap_index = line_index])
        ELSE s

----------------------------------------------------------------------------
(* The handlers as actions, and what the outside world feeds them *)

(* "i\n1a\t/a\th\ni\n0b\t/b\th\n": Info, Menu a, Info, Text b *)
RespMenu ==
    <<"i", "\n", "1", "a", "\t", "/", "a", "\t", "h", "\n", "i", "\n",
      "0", "b", "\t", "/", "b", "\t", "h", "\n">>

(* "7s\t/s\th\t7\r\n\r\n9x\n1n\n.\r\n1z\n": Search s on port 7, a blank line,  *)
(* Binary x, Menu n without host, the end marker and a line after it.        *)
RespMixed ==
    <<"7", "s", "\t", "/", "s", "\t", "h", "\t", "7", "\r", "\n", "\r", "\n",
      "9", "x", "\n", "1", "n", "\n", ".", "\r", "\n", "1", "z", "\n">>

(* "iw\r\n3e": Info and Error, nothing selectable, no final newline *)
RespInfo == <<"i", "w", "\r", "\n", "3", "e">>

(* What fetch_gopher may return; <<>> is the failed (or empty) fetch. *)
Responses == {<<>>, RespMenu, RespMixed, RespInfo}

(* Values the uninitialised port of a text item may hold. *)
Indeterminate == {-1, 0}

(* What the on-screen keyboard may hand to search_keyboard_handler. *)
Queries ==
    {[null |-> TRUE, chars |-> <<>>], [null |-> FALSE, chars |-> <<>>],
     [null |-> FALSE, chars |-> <<"q">>]}

EvtShow(response) ==
    Commit(evt_show(Enter(St), response))

HandleKeyPrev(response) ==
    Commit(handle_key_prev(Enter(St), response))

HandleKeyNext(response, junk) ==
    Commit(handle_key_next(Enter(St), response, junk))

BookmarkMenuHandler(index, response) ==
    Commit(bookmark_menu_handler(Enter(St), index, response))

SearchKeyboardHandler(text, response) ==
    Commit(search_keyboard_handler(Enter(St), text, response))

MoveSelection(direction) ==
    Commit(move_selection(Enter(St), direction))

PointerUpTap(row, quick, response, junk) ==
    Commit(pointer_up_tap(Enter(St), row, quick, response, junk))

PointerUpSwipe(swipe_lines) ==
    Commit(pointer_up_swipe(Enter(St), swipe_lines))

(* The bookmarks chosen under Spec (SpecHistory goes through all of them). *)
BookmarkChoices == {0, 3}

(* Input events follow the first EVT_SHOW; the keyboard of a pending search  *)
(* is modal.                                                                 *)
Started == initial_load_done
Idle == Started /\ ~search_pending
CanNavigate == Len(history) < MaxDepth

Show == \E r \in Responses : EvtShow(r)

Back == Idle /\ \E r \in Responses : HandleKeyPrev(r)

Follow ==
    Idle /\ CanNavigate /\ \E r \in Responses, j \in Indeterminate : HandleKeyNext(r, j)

Bookmark ==
    Idle /\ CanNavigate /\ \E index \in BookmarkChoices, r \in Responses :
        BookmarkMenuHandler(index, r)

Keyboard ==
    search_pending /\ \E text \in Queries, r \in Responses : SearchKeyboardHandler(text, r)

Tap ==
    Idle /\ CanNavigate
         /\ \E row \in 0..(visible_lines - 1), quick \in BOOLEAN, r \in Responses,
               j \in Indeterminate : PointerUpTap(row, quick, r, j)

Swipe == Idle /\ \E swipe_lines \in {-1, 1} : PointerUpSwipe(swipe_lines)

Move == Idle /\ \E direction \in {-1, 1} : MoveSelection(direction)

(* The events main_handler dispatches. *)
Next == Show \/ Back \/ Follow \/ Bookmark \/ Keyboard \/ Tap \/ Swipe

Spec == Init /\ [][Next]_vars

(* main_handler never calls move_selection; SpecSelection adds it to the     *)
(* events, as the operation the specification describes, for a user who      *)
(* follows links and goes back but opens no bookmark.                        *)
NextSelection == Show \/ Back \/ Follow \/ Keyboard \/ Tap \/ Swipe \/ Move

SpecSelection == Init /\ [][NextSelection]_vars

(* A user who drives the browser with the keys and the bookmark menu, with   *)
(* the address of the content on display followed.                           *)
InitBack == InitGlobals /\ parse_call = NoParse /\ shown = [NoShown EXCEPT !.on = TRUE]

NextBack == Show \/ Back \/ Follow \/ Bookmark \/ Keyboard

SpecBack == InitBack /\ [][NextBack]_vars

(* A user who goes through the bookmarks in turn (the bookmark after the one *)
(* the current address is, the first one when it is none) and goes back, as  *)
(* deep as the history gets.                                                 *)
HistoryResponses == {<<>>, RespInfo}

NextBookmark ==
    IF \E k \in 0..3 : /\ Bookmarks[k + 1].host = current_page.host
                       /\ Bookmarks[k + 1].selector = current_page.selector
    THEN ((CHOOSE k \in 0..3 : /\ Bookmarks[k + 1].host = current_page.host
                               /\ Bookmarks[k + 1].selector = current_page.selector) + 1) % 4
    ELSE 0

NextHistory ==
    \/ \E r \in HistoryResponses : EvtShow(r)
    \/ Started /\ \E r \in HistoryResponses : HandleKeyPrev(r)
    \/ Started /\ \E r \in HistoryResponses : BookmarkMenuHandler(NextBookmark, r)

SpecHistory == Init /\ [][NextHistory]_vars

----------------------------------------------------------------------------
(* fetch_gopher, system call by system call *)

(* fetch_call: pc is the call fetch_gopher is about to make ("returned":     *)
(* it has returned), connects the number of connect() calls made, received   *)
(* the bytes recv has delivered, nul_chunks how many of the chunks held a    *)
(* zero byte, response the length of the local std::string response, outcome *)
(* why the call ended and result the length of the string it returned.       *)

(* char buffer[4096] *)
buffer_size == 4096

(* What one recv may deliver: n bytes, of which the first text are not zero  *)
(* (text = n: no zero byte in the chunk; text = 0: the chunk begins with     *)
(* one).  recv is asked for sizeof(buffer) - 1 bytes at most.                *)
Chunks ==
    {[n |-> buffer_size - 1, text |-> buffer_size - 1],
     [n |-> buffer_size \div 2, text |-> buffer_size \div 2],
     [n |-> buffer_size - 1, text |-> 0]}

(* Entry of fetch_gopher: std::string response is empty. *)
FetchGopher ==
    /\ fetch_call.pc \in {"none", "returned"}
    /\ fetch_call' = [NoCall EXCEPT !.pc = "connect_to_host"]
    /\ UNCHANGED <<current_page, history, scroll_offset, selected_index, visible_lines,
                   is_loading, status_message, search_pending, pending_search_item,
                   initial_load_done, last_tap_index, last_event, parse_call, shown>>

(* The status connect_to_host sets when it returns -1. *)
connect_status(failure) ==
    IF failure = "gethostbyname" THEN "DNS resolution failed"
    ELSE IF failure = "socket" THEN "Failed to create socket"
    ELSE "Connection failed"

(* connect_to_host: failure is the call that fails ("none": it returns a     *)
(* socket); fetch_gopher returns "" when it gets -1.                         *)
ConnectToHost(failure) ==
    /\ fetch_call.pc = "connect_to_host"
    /\ IF failure = "none"
       THEN /\ fetch_call' = [fetch_call EXCEPT !.pc = "send", !.connects = @ + 1]
            /\ UNCHANGED status_message
       ELSE /\ fetch_call' = [fetch_call EXCEPT
                                 !.pc = "returned",
                                 !.connects = IF failure = "connect" THEN @ + 1 ELSE @,
                                 !.outcome = failure, !.result = 0]
            /\ status_message' = connect_status(failure)
    /\ UNCHANGED <<current_page, history, scroll_offset, selected_index, visible_lines,
                   is_loading, search_pending, pending_search_item,
                   initial_load_done, last_tap_index, last_event, parse_call, shown>>

(* send(sockfd, request...) < 0: close, set_status, return "" *)
Send(sent) ==
    /\ fetch_call.pc = "send"
    /\ IF sent
       THEN /\ fetch_call' = [fetch_call EXCEPT !.pc = "recv"]
            /\ UNCHANGED status_message
       ELSE /\ fetch_call' = [fetch_call EXCEPT !.pc = "returned", !.outcome = "send",
                                                !.result = 0]
            /\ status_message' = "Failed to send request"
    /\ UNCHANGED <<current_page, history, scroll_offset, selected_index, visible_lines,
                   is_loading, search_pending, pending_search_item,
                   initial_load_done, last_tap_index, last_event, parse_call, shown>>

(* response += buffer, buffer being a char array: the bytes before the first *)
(* zero byte are appended.                                                   *)
append_buffer(response, chunk) == response + chunk.text

(* A recv that returns chunk.n > 0: one turn of the while loop. *)
Recv(chunk) ==
    /\ fetch_call.pc = "recv"
    /\ chunk.text = chunk.n \/ fetch_call.nul_chunks < MaxNulChunks
    /\ LET response == append_buffer(fetch_call.response, chunk)
           f == [fetch_call EXCEPT !.received = @ + chunk.n,
                                   !.nul_chunks = IF chunk.text < chunk.n THEN @ + 1 ELSE @,
                                   !.response = response]
       IN  IF response > kMaxResponseSize
           THEN /\ fetch_call' = [f EXCEPT !.pc = "returned", !.outcome = "too large",
                                           !.result = response]
                /\ status_message' = "Response too large"
           ELSE /\ fetch_call' = f
                /\ UNCHANGED status_message
    /\ UNCHANGED <<current_page, history, scroll_offset, selected_index, visible_lines,
                   is_loading, search_pending, pending_search_item,
                   initial_load_done, last_tap_index, last_event, parse_call, shown>>

(* A recv that returns 0 (the peer closed the stream) or -1 (an error, or    *)
(* the timeout SO_RCVTIMEO sets): the loop ends, close, return response.     *)
RecvEnd(bytes_received) ==
    /\ fetch_call.pc = "recv"
    /\ fetch_call' = [fetch_call EXCEPT
                         !.pc = "returned",
                         !.outcome = IF bytes_received = 0 THEN "closed" ELSE "recv",
                         !.result = fetch_call.response]
    /\ UNCHANGED <<current_page, history, scroll_offset, selected_index, visible_lines,
                   is_loading, status_message, search_pending, pending_search_item,
                   initial_load_done, last_tap_index, last_event, parse_call, shown>>

NextFetch ==
    \/ FetchGopher
    \/ \E failure \in {"none", "gethostbyname", "socket", "connect"} : ConnectToHost(failure)
    \/ \E sent \in BOOLEAN : Send(sent)
    \/ \E chunk \in Chunks : Recv(chunk)
    \/ \E bytes_received \in {0, -1} : RecvEnd(bytes_received)

SpecFetch == Init /\ [][NextFetch]_vars

----------------------------------------------------------------------------
(* The parsers on their own *)

(* The strings of at most n characters of an alphabet. *)
Strings(alphabet, n) == UNION {[1..k -> alphabet] : k \in 0..n}

(* Responses: a kind character that is a digit, the end marker, CR, LF, tab. *)
ResponseAlphabet == {"1", ".", "\r", "\n", "\t"}

(* Lines with a port field: a kind character that is a digit, tab, a sign, a *)
(* character that is neither, a blank.                                       *)
LineAlphabet == {"1", "\t", "-", "x", " "}

ParseInputs ==
    Strings(ResponseAlphabet, MaxResponseLen) \cup Strings(LineAlphabet, MaxLineLen)

InitParse ==
    /\ InitGlobals
    /\ parse_call \in {[NoParse EXCEPT !.op = "input", !.input = r] : r \in ParseInputs}
    /\ shown = NoShown

ParseGopherLine ==
    /\ parse_call.op = "input"
    /\ parse_call' = [parse_call EXCEPT !.op = "parse_gopher_line",
                                        !.item = parse_gopher_line(parse_call.input)]
    /\ UNCHANGED <<current_page, history, scroll_offset, selected_index, visible_lines,
                   is_loading, status_message, search_pending, pending_search_item,
                   initial_load_done, last_tap_index, last_event, fetch_call, shown>>

ParseGopherMenu ==
    /\ parse_call.op = "input"
    /\ parse_call' = [parse_call EXCEPT !.op = "parse_gopher_menu"]
    /\ current_page' = parse_gopher_menu(parse_call.input, current_page)
    /\ UNCHANGED <<history, scroll_offset, selected_index, visible_lines,
                   is_loading, status_message, search_pending, pending_search_item,
                   initial_load_done, last_tap_index, last_event, fetch_call, shown>>

ParseTextFile(junk) ==
    /\ parse_call.op = "input"
    /\ parse_call' = [parse_call EXCEPT !.op = "parse_text_file"]
    /\ current_page' = parse_text_file(parse_call.input, current_page, junk)
    /\ UNCHANGED <<history, scroll_offset, selected_index, visible_lines,
                   is_loading, status_message, search_pending, pending_search_item,
                   initial_load_done, last_tap_index, last_event, fetch_call, shown>>

NextParse ==
    \/ ParseGopherLine
    \/ ParseGopherMenu
    \/ \E junk \in Indeterminate : ParseTextFile(junk)

SpecParse == InitParse /\ [][NextParse]_vars

(* A user who follows the links of two listings that hold an item of every   *)
(* kind follow_link tells apart, by key or by double tap, and answers the    *)
(* keyboard of a search.                                                     *)

(* "9\nI\ng\ns\n5\n4\n6\n": an item of each of the seven binary kinds *)
RespBinary ==
    <<"9", "\n", "I", "\n", "g", "\n", "s", "\n", "5", "\n", "4", "\n", "6",
      "\n">>

(* "d\tD\th\t7\nX\tx\th\nh\tw\th\n0\tt\th\n1\n7\ts\th\t7\n": a Document on port 7, *)
(* the unknown kind X, Html, Text, a Menu without host and a Search on       *)
(* port 7.                                                                   *)
RespKinds ==
    <<"d", "\t", "D", "\t", "h", "\t", "7", "\n", "X", "\t", "x", "\t", "h",
      "\n", "h", "\t", "w", "\t", "h", "\n", "0", "\t", "t", "\t", "h", "\n",
      "1", "\n", "7", "\t", "s", "\t", "h", "\t", "7", "\n">>

FollowResponses == {<<>>, RespBinary, RespKinds}

(* The queries of Queries and one that holds a tab and a newline. *)
FollowQueries == Queries \cup {[null |-> FALSE, chars |-> <<"a", "\t", "\n">>]}

NextFollow ==
    \/ \E r \in FollowResponses : EvtShow(r)
    \/ Idle /\ CanNavigate /\ \E r \in FollowResponses, j \in Indeterminate :
            HandleKeyNext(r, j)
    \/ search_pending /\ \E text \in FollowQueries, r \in FollowResponses :
            SearchKeyboardHandler(text, r)
    \/ Idle /\ CanNavigate
            /\ \E row \in 0..(visible_lines - 1), quick \in BOOLEAN, r \in FollowResponses,
                  j \in Indeterminate : PointerUpTap(row, quick, r, j)
    \/ Swipe

SpecFollow == Init /\ [][NextFollow]_vars

----------------------------------------------------------------------------
(* Properties *)

(* What the step that led to the state, or the step s -> s', was. *)
Navigated == last_event.expected_type # "none"
WentBack == last_event.go_back # "none"
Fetched == last_event.fetches # <<>>
LoadSucceeded == Fetched /\ last_event.fetches[1].response # <<>>
LoadFailed == Fetched /\ last_event.fetches[1].response = <<>>

Address(page) == HistoryEntry(page.host, page.selector, page.port)

(* C1: the history never holds more than 50 entries, and a navigate that     *)
(* pushes onto a history of 50 entries issues its fetch and leaves the       *)
(* history without its oldest entry, the other 49 in order, with the address *)
(* of the page it left as the newest entry.                                  *)
C1_HistoryBounded ==
    /\ [](Len(history) <= 50)
    /\ [][(Navigated' /\ current_page.host # <<>> /\ Len(history) = 50)
            => /\ history' = Append(Tail(history), Address(current_page))
               /\ Len(history') = 50
               /\ Fetched']_vars

(* A full history whose oldest entry is the second bookmark: the first       *)
(* bookmark, pushed first, has been evicted by the navigate that just ran.   *)
C1_Witness ==
    /\ Navigated
    /\ Len(history) = 50
    /\ history[1].host = Bookmarks[2].host
    /\ history[2].host = Bookmarks[3].host

(* C2: go_back with an empty history returns false, issues no fetch and      *)
(* leaves the page, the selection and the history as they were.              *)
C2_GoBackEmpty ==
    [][(WentBack' /\ history = <<>>)
        => /\ last_event'.go_back = "false"
           /\ ~Fetched'
           /\ current_page' = current_page
           /\ selected_index' = selected_index
           /\ history' = history]_vars

(* go_back has just returned false without a fetch, on a loaded page with a  *)
(* selected item.                                                            *)
C2_Witness ==
    /\ last_event.go_back = "false"
    /\ ~Fetched
    /\ history = <<>>
    /\ current_page.items # <<>>
    /\ selected_index >= 0

(* C3: when the fetch of navigate_to or go_back returns empty, the status    *)
(* reports the load failure, host/selector/port are the requested address    *)
(* (for go_back the popped entry) and items, is_menu, raw_text and the       *)
(* selection are what they were before the call (the selection: what it was *)
(* when the fetch was issued, a double tap selecting the tapped item before  *)
(* it follows it).                                                           *)
C3_FailedLoad ==
    [][LoadFailed'
        => /\ status_message' = "Failed to load page"
           /\ current_page'.host = last_event'.fetches[1].host
           /\ current_page'.selector = last_event'.fetches[1].selector
           /\ current_page'.port = last_event'.fetches[1].port
           /\ WentBack' => /\ Address(current_page') = history[Len(history)]
                           /\ last_event'.go_back = "false"
           /\ current_page'.items = current_page.items
           /\ current_page'.is_menu = current_page.is_menu
           /\ current_page'.raw_text = current_page.raw_text
           /\ selected_index' = last_event'.fetches[1].selected_index
           /\ (selected_index' = selected_index \/ last_tap_index' # last_tap_index)]_vars

(* A failed load has left the address of a page that was never reached over  *)
(* the items and the selection of the page loaded before.                    *)
C3_Witness ==
    /\ LoadFailed
    /\ status_message = "Failed to load page"
    /\ current_page.items # <<>>
    /\ selected_index >= 0
    /\ Address(current_page) = [host |-> <<"h">>, selector |-> <<"/", "a">>, port |-> 70]

(* A page is loaded: some navigate_to or go_back has succeeded.  (Only a     *)
(* successful load sets is_menu or a non-empty raw_text, and none unsets     *)
(* both.)                                                                    *)
PageLoaded == current_page.is_menu \/ current_page.raw_text # <<>>

(* C4: navigate pushes the current address exactly when a page is loaded:    *)
(* while no load has succeeded the history stays empty, and once a page is   *)
(* loaded every navigate pushes exactly one entry, the current address.      *)
C4_PushIffLoaded ==
    [][Navigated'
        => IF PageLoaded
           THEN history' = IF Len(history) < 50
                           THEN Append(history, Address(current_page))
                           ELSE Append(Tail(history), Address(current_page))
           ELSE history' = <<>>]_vars

(* C5: go_back on a non-empty history fetches the address of the newest      *)
(* entry and leaves the history without that entry, whether the fetch        *)
(* succeeds or fails; go_back never adds an entry.                           *)
C5_GoBackPops ==
    [][WentBack'
        => /\ Len(history') <= Len(history)
           /\ history # <<>>
                => /\ history' = SubSeq(history, 1, Len(history) - 1)
                   /\ Len(last_event'.fetches) = 1
                   /\ Address(last_event'.fetches[1]) = history[Len(history)]]_vars

(* go_back has popped the newer of two different entries and its fetch has   *)
(* failed.                                                                   *)
C5_Witness ==
    /\ last_event.go_back = "false"
    /\ LoadFailed
    /\ Len(history) = 1
    /\ history[1] # Address(current_page)

(* C6: after a successful go_back the page is a menu whose items are the     *)
(* menu parse of the fetched response, whatever the address was loaded as    *)
(* before.                                                                   *)
C6_GoBackParsesMenu ==
    last_event.go_back = "true"
        => /\ current_page.is_menu
           /\ current_page.items = menu_items(last_event.fetches[1].response)

(* go_back has reloaded the address of the Text item b, which an earlier     *)
(* navigate loaded as a text document.                                       *)
C6_Witness ==
    /\ last_event.go_back = "true"
    /\ current_page.selector = <<"/", "b">>
    /\ current_page.raw_text # <<>>
    /\ current_page.is_menu
    /\ Len(current_page.items) = 4

(* The kind and the text fields of each item (all but the port, which a text *)
(* item does not set).                                                       *)
ItemTexts(items) ==
    [i \in 1..Len(items) |->
        <<items[i].type, items[i].display, items[i].selector, items[i].host>>]

ParsedAsText == Navigated /\ last_event.expected_type \in {GOPHER_TEXT, GOPHER_HTML}

(* C7: after a successful navigate_to or go_back every field of the page is  *)
(* what the request and the response make it; none keeps a value of the page *)
(* loaded before (raw_text is the response of a text load and empty after a  *)
(* menu load).                                                               *)
C7_ReplacedWholesale ==
    LoadSucceeded
        => /\ Address(current_page) = Address(last_event.fetches[1])
           /\ IF ParsedAsText
              THEN /\ ~current_page.is_menu
                   /\ current_page.raw_text = last_event.fetches[1].response
                   /\ ItemTexts(current_page.items) =
                        ItemTexts(parse_text_file(last_event.fetches[1].response,
                                                  current_page, 0).items)
              ELSE /\ current_page.is_menu
                   /\ current_page.raw_text = <<>>
                   /\ current_page.items = menu_items(last_event.fetches[1].response)

Selectable(items) ==
    {i \in 0..(Len(items) - 1) :
        items[i + 1].type \notin {"i", "3", "+", "2", "8", "T"}}

Min(S) == CHOOSE x \in S : \A y \in S : x <= y
Max(S) == CHOOSE x \in S : \A y \in S : x >= y

(* C9: after a successful navigate_to or go_back the selection is the        *)
(* smallest selectable index, -1 when the page has none (always on a text    *)
(* page), and the status is cleared.                                         *)
C9_FirstSelectable ==
    LoadSucceeded
        => /\ status_message = ""
           /\ selected_index = IF Selectable(current_page.items) = {} THEN -1
                               ELSE Min(Selectable(current_page.items))
           /\ ~current_page.is_menu => selected_index = -1

(* A page just loaded whose first item is an Info line and whose second is   *)
(* selected.                                                                 *)
C9_Witness ==
    /\ LoadSucceeded
    /\ status_message = ""
    /\ Len(current_page.items) >= 2
    /\ current_page.items[1].type = "i"
    /\ selected_index = 1

(* C10: move_selection(d), d = +1 or -1, selects the nearest selectable item *)
(* after (before) the selection; when there is none it wraps to the first    *)
(* selectable item before (the last one after) the selection; when there is  *)
(* no other selectable item, or no item, the selection stays.  The page is   *)
(* not touched.                                                              *)
C10_MoveSelection ==
    [][last_event'.direction # 0
        => LET d == last_event'.direction
               S == Selectable(current_page.items)
               after == {i \in S : i > selected_index}
               before == {i \in S : i < selected_index}
           IN  /\ d \in {-1, 1}
               /\ current_page' = current_page
               /\ selected_index' =
                    IF d = 1
                    THEN IF after # {} THEN Min(after)
                         ELSE IF before # {} THEN Min(before) ELSE selected_index
                    ELSE IF before # {} THEN Max(before)
                         ELSE IF after # {} THEN Max(after) ELSE selected_index]_vars

(* On [Info, A, Info, B], move_selection(+1) has wrapped from B to A. *)
C10_Witness ==
    /\ last_event.direction = 1
    /\ ItemTexts(current_page.items) = ItemTexts(menu_items(RespMenu))
    /\ selected_index = 1

(* The step s -> s' ran follow_link on a selected item of one of the kinds:  *)
(* follow_link was entered with an index of the page's items.                *)
Followed == last_event'.follow \in 0..(Len(current_page.items) - 1)
FollowedItem == current_page.items[last_event'.follow + 1]
FollowedKind(kinds) == Followed /\ FollowedItem.type \in kinds

(* Binary, Image, Gif, Sound, DosBinary, BinHex, UuEncoded *)
BinaryKinds == {"9", "I", "g", "s", "5", "4", "6"}

(* C11: follow_link on a selected item of kind Binary, Image, Gif, Sound,    *)
(* DosBinary, BinHex or UuEncoded issues no fetch and leaves the page, the   *)
(* selection (the item it was entered with), the history, the status and the *)
(* pending search as they were; it only shows "Binary files cannot be        *)
(* displayed".                                                               *)
C11_BinaryNotFollowed ==
    [][FollowedKind(BinaryKinds)
        => /\ ~Fetched'
           /\ ~Navigated'
           /\ last_event'.message = "Binary files cannot be displayed"
           /\ current_page' = current_page
           /\ history' = history
           /\ selected_index' = last_event'.follow
           /\ (selected_index' = selected_index \/ last_tap_index' # last_tap_index)
           /\ status_message' = status_message
           /\ search_pending' = search_pending
           /\ pending_search_item' = pending_search_item]_vars

(* follow_link has just refused the UuEncoded item, the seventh of the       *)
(* listing, on a page reached through a link.                                *)
C11_Witness ==
    /\ last_event.follow = 6
    /\ selected_index = 6
    /\ current_page.items[7].type = "6"
    /\ last_event.message = "Binary files cannot be displayed"
    /\ ~Fetched
    /\ history # <<>>

(* The step s -> s' is one navigate to the address of item, and a response   *)
(* that is not empty is parsed as text (as_text) or as a menu.               *)
NavigatedAs(item, as_text) ==
    /\ Navigated'
    /\ Len(last_event'.fetches) = 1
    /\ last_event'.fetches[1].host = item.host
    /\ last_event'.fetches[1].selector = item.selector
    /\ last_event'.fetches[1].port = item.port
    /\ LoadSucceeded'
        => LET response == last_event'.fetches[1].response
           IN  IF as_text
               THEN /\ ~current_page'.is_menu
                    /\ current_page'.raw_text = response
                    /\ ItemTexts(current_page'.items) =
                         ItemTexts(parse_text_file(response, current_page, 0).items)
               ELSE /\ current_page'.is_menu
                    /\ current_page'.items = menu_items(response)

(* The step s -> s' left the page, the selection, the history, the status    *)
(* and the pending search alone and showed nothing.                          *)
NothingHappened ==
    /\ ~Fetched'
    /\ ~Navigated'
    /\ last_event'.message = ""
    /\ UNCHANGED <<current_page, history, selected_index, scroll_offset, status_message,
                   search_pending, pending_search_item>>

(* C12: follow_link dispatches on the kind of the selected item: Menu        *)
(* navigates to the item's address parsed as a menu, Text and Html parsed as *)
(* text, Search fetches nothing and leaves the search pending on the item    *)
(* (no step fetches while a search is pending but the keyboard handler that  *)
(* is handed a non-empty query), every other selectable kind that is not    *)
(* binary navigates parsed as a menu, and without a selection or on a        *)
(* non-selectable item nothing happens.                                      *)
C12_FollowDispatch ==
    /\ [][last_event'.follow # -2
            => IF ~Followed \/ FollowedItem.type \in {"i", "3", "+", "2", "8", "T"}
               THEN NothingHappened
               ELSE IF FollowedItem.type = "1" THEN NavigatedAs(FollowedItem, FALSE)
               ELSE IF FollowedItem.type \in {"0", "h"} THEN NavigatedAs(FollowedItem, TRUE)
               ELSE IF FollowedItem.type = "7"
                    THEN /\ ~Fetched'
                         /\ ~Navigated'
                         /\ search_pending'
                         /\ pending_search_item' = FollowedItem
                         /\ UNCHANGED <<current_page, history>>
               ELSE IF FollowedItem.type \in BinaryKinds THEN ~Navigated'
               ELSE NavigatedAs(FollowedItem, FALSE)]_vars
    /\ [][(search_pending /\ Fetched')
            => /\ last_event'.keyboard.called
               /\ ~last_event'.keyboard.null
               /\ last_event'.keyboard.chars # <<>>]_vars

(* follow_link has just loaded the Document item as a menu: the page is the  *)
(* listing of the binary kinds, at the address of the item.                  *)
C12_Witness ==
    /\ last_event.follow = 0
    /\ last_event.expected_type = "1"
    /\ Len(last_event.fetches) = 1
    /\ Address(last_event.fetches[1]) = [host |-> <<"h">>, selector |-> <<"D">>, port |-> 7]
    /\ current_page.is_menu
    /\ Len(current_page.items) = 7
    /\ history # <<>>

(* The step s -> s' handed search_keyboard_handler a query that is not empty. *)
QuerySupplied ==
    /\ last_event'.keyboard.called
    /\ ~last_event'.keyboard.null
    /\ last_event'.keyboard.chars # <<>>

(* C13: the search of a Search item: follow_link makes the item the pending  *)
(* one, which stays the same while the search is pending, and for every      *)
(* query that is not empty the keyboard handler navigates once, as a menu,   *)
(* to the item's host and port with the selector item.selector + TAB + the   *)
(* query as it was typed, and pushes the address of the page the search was  *)
(* started from onto the history.                                            *)
C13_SearchNavigation ==
    /\ [][FollowedKind({"7"}) => (search_pending' /\ pending_search_item' = FollowedItem)]_vars
    /\ [][search_pending => pending_search_item' = pending_search_item]_vars
    /\ [][QuerySupplied
            => /\ Navigated'
               /\ last_event'.expected_type = "1"
               /\ Len(last_event'.fetches) = 1
               /\ last_event'.fetches[1].host = pending_search_item.host
               /\ last_event'.fetches[1].selector =
                     pending_search_item.selector \o <<"\t">> \o last_event'.keyboard.chars
               /\ last_event'.fetches[1].port = pending_search_item.port
               /\ LoadSucceeded' => /\ current_page'.is_menu
                                    /\ current_page'.items =
                                         menu_items(last_event'.fetches[1].response)
               /\ history' = IF Len(history) < 50
                             THEN Append(history, Address(current_page))
                             ELSE Append(Tail(history), Address(current_page))]_vars

(* fetch_gopher has returned. *)
Returned == fetch_call.pc = "returned"

(* C14: when the peer has streamed more than 524288 bytes (none of them      *)
(* zero) and neither closed the stream nor failed, fetch_gopher returns      *)
(* exactly 524288 bytes.                                                     *)
C14_ExactCap ==
    (/\ Returned
     /\ fetch_call.received > 524288
     /\ fetch_call.nul_chunks = 0
     /\ fetch_call.outcome \notin {"closed", "recv"})
        => fetch_call.result = 524288

(* C15: a call of fetch_gopher makes at most one connect, and when anything  *)
(* fails (gethostbyname, socket, connect, send, or a recv that returns an    *)
(* error or times out, bytes received before or not) it returns the empty    *)
(* string.                                                                   *)
C15_FailureEmpty ==
    /\ fetch_call.connects <= 1
    /\ (Returned /\ fetch_call.outcome \in {"gethostbyname", "socket", "connect", "send", "recv"})
         => fetch_call.result = 0

(* C16: the read loop has ended as soon as the bytes received from the peer  *)
(* exceed 524288, whatever their values: fetch_gopher never asks for more    *)
(* with more than that received.                                             *)
C16_LoopStops ==
    fetch_call.pc = "recv" => fetch_call.received <= 524288

(* The k-th element of a set of numbers, in ascending order. *)
Nth(S, k) == CHOOSE x \in S : Cardinality({y \in S : y < x}) = k - 1

(* The pieces of s between the occurrences of the character d. *)
Delimiters(s, d) == {i \in 1..Len(s) : s[i] = d}

Segment(s, d, k) ==
    LET D == Delimiters(s, d)
        from == IF k = 1 THEN 1 ELSE Nth(D, k - 1) + 1
        to == IF k <= Cardinality(D) THEN Nth(D, k) - 1 ELSE Len(s)
    IN  SubSeq(s, from, to)

Segments(s, d) == [k \in 1..(Cardinality(Delimiters(s, d)) + 1) |-> Segment(s, d, k)]

(* The lines of a response: what the newlines separate, the last line being  *)
(* terminated by a newline or by the end of the response; each without one   *)
(* trailing carriage return.                                                 *)
WithoutCR(line) ==
    IF line # <<>> /\ line[Len(line)] = "\r" THEN SubSeq(line, 1, Len(line) - 1) ELSE line

LinesOf(response) ==
    LET S == Segments(response, "\n")
        n == IF S[Len(S)] = <<>> THEN Len(S) - 1 ELSE Len(S)
    IN  [k \in 1..n |-> WithoutCR(S[k])]

(* The lines before the first line that is exactly ".". *)
LinesBeforeMarker(response) ==
    LET L == LinesOf(response)
        M == {k \in 1..Len(L) : L[k] = <<".">>}
    IN  IF M = {} THEN L ELSE SubSeq(L, 1, Nth(M, 1) - 1)

NotBlank(line) == line # <<>>

(* C17: parse_gopher_menu sets is_menu and leaves as items parse_gopher_line *)
(* of each line that is not blank, in order, up to the first line that is    *)
(* exactly "." (a line being taken without one trailing carriage return).    *)
C17_ParseMenu ==
    parse_call.op = "parse_gopher_menu"
        => LET L == SelectSeq(LinesBeforeMarker(parse_call.input), NotBlank)
           IN  /\ current_page.is_menu
               /\ current_page.items = [k \in 1..Len(L) |-> parse_gopher_line(L[k])]

(* C18: parse_text_file unsets is_menu, keeps the response as raw_text and   *)
(* leaves one Info item per line before the first "." line, blank lines      *)
(* included, in order, each with the text of its line.                       *)
C18_ParseText ==
    parse_call.op = "parse_text_file"
        => LET L == LinesBeforeMarker(parse_call.input)
           IN  /\ ~current_page.is_menu
               /\ current_page.raw_text = parse_call.input
               /\ ItemTexts(current_page.items) =
                    [k \in 1..Len(L) |-> <<"i", L[k], <<>>, <<>> >>]

(* C19: for a response whose last line is not terminated by a newline, each  *)
(* parser leaves the items it leaves for the response with a newline added.  *)
C19_FinalNewline ==
    (parse_call.input # <<>> /\ parse_call.input[Len(parse_call.input)] # "\n")
        => LET terminated == Append(parse_call.input, "\n")
           IN  /\ parse_call.op = "parse_gopher_menu"
                    => current_page.items = menu_items(terminated)
               /\ parse_call.op = "parse_text_file"
                    => ItemTexts(current_page.items) =
                         ItemTexts(parse_text_file(terminated, current_page, 0).items)

(* The port field holds a number: between blanks, an optional sign and then  *)
(* digits only.                                                              *)
IsNumber(field) ==
    LET f == trim(field)
        digits == IF f # <<>> /\ f[1] \in {"-", "+"} THEN Tail(f) ELSE f
    IN  digits # <<>> /\ \A i \in 1..Len(digits) : IsDigit(digits[i])

(* C20: parse_gopher_line yields an item for every line: an Info item with   *)
(* empty display for the empty line, otherwise the first character as the    *)
(* kind and the tab separated fields of the rest as display, selector and    *)
(* host (empty when missing); the port is positive, and is 70 when the port  *)
(* field is missing, empty, not a number or not a positive one.              *)
C20_ParseLine ==
    parse_call.op = "parse_gopher_line"
        => LET line == parse_call.input
               item == parse_call.item
               fields == Segments(Tail(line), "\t")
               Field(k) == IF k <= Len(fields) THEN fields[k] ELSE <<>>
           IN  IF line = <<>>
               THEN /\ item.type = "i"
                    /\ item.display = <<>>
                    /\ item.port = 70
               ELSE /\ item.type = line[1]
                    /\ item.display = Field(1)
                    /\ item.selector = Field(2)
                    /\ item.host = Field(3)
                    /\ item.port > 0
                    /\ (~IsNumber(Field(4)) \/ atoi(Field(4)) <= 0) => item.port = 70

(* C21: is_loading is false whenever a handler starts or has returned, on    *)
(* the success and on the failure path; it is true during every call of      *)
(* fetch_gopher, and a handler (a navigate, go_back, follow or search        *)
(* navigation) makes at most one such call, so no fetch starts while one is  *)
(* outstanding.                                                              *)
C21_OneFetch ==
    /\ [](~is_loading)
    /\ [][/\ Len(last_event'.fetches) <= 1
          /\ \A i \in 1..Len(last_event'.fetches) :
                /\ last_event'.fetches[i].is_loading
                /\ Navigated' \/ WentBack'
          /\ (Navigated' \/ (WentBack' /\ history # <<>>)) => Fetched']_vars

(* go_back has returned from a fetch that failed, made with is_loading set,  *)
(* and is_loading is false again.                                            *)
C21_Witness ==
    /\ WentBack
    /\ LoadFailed
    /\ last_event.fetches[1].is_loading
    /\ ~is_loading
    /\ status_message = "Failed to load page"

(* C22: "No more history" is shown for a back request only when the history  *)
(* was empty when it was made; a back request on a history that is not       *)
(* empty and whose fetch fails leaves the status "Failed to load page" and   *)
(* shows no such message.                                                    *)
C22_NoMoreHistory ==
    [][/\ last_event'.message = "No more history" => (WentBack' /\ history = <<>>)
       /\ (WentBack' /\ history = <<>>) => last_event'.message = "No more history"
       /\ (WentBack' /\ history # <<>> /\ LoadFailed')
            => /\ status_message' = "Failed to load page"
               /\ last_event'.message # "No more history"]_vars

(* C23: in every state the selection is -1 or the index of an item of the    *)
(* current page that is selectable.                                          *)
C23_SelectionValid ==
    \/ selected_index = -1
    \/ /\ selected_index \in 0..(Len(current_page.items) - 1)
       /\ current_page.items[selected_index + 1].type \notin {"i", "3", "+", "2", "8", "T"}

(* move_selection has moved the selection to the fourth item of a listing    *)
(* that stayed on display when a navigation failed: the address is that of   *)
(* another page.                                                             *)
C23_Witness ==
    /\ last_event.direction # 0
    /\ selected_index = 3
    /\ ItemTexts(current_page.items) = ItemTexts(menu_items(RespMenu))
    /\ status_message = "Failed to load page"
    /\ current_page.host = <<"h">>

(* C24: when a navigate_to that succeeds from a page on display is followed  *)
(* at once by a go_back that succeeds, go_back fetches the address the       *)
(* content on display before the navigate_to was loaded from, and leaves the *)
(* history as it was before the navigate_to.                                 *)
C24_BackUndoesForward ==
    [][(/\ Navigated /\ LoadSucceeded
        /\ shown.before.loaded
        /\ last_event'.go_back = "true")
        => /\ Address(last_event'.fetches[1]) = shown.before.address
           /\ history' = shown.before.history]_vars

(* C25: search_keyboard_handler always leaves search_pending false, after a  *)
(* search navigation that succeeds or fails as after a cancelled search; and *)
(* handed no text (cancelled) or an empty text it fetches nothing and leaves *)
(* the page, the selection, the history and the status as they were.         *)
C25_SearchCancelled ==
    /\ [][last_event'.keyboard.called
            => /\ search_pending
               /\ ~search_pending'
               /\ QuerySupplied => Navigated' /\ Fetched'
               /\ ~QuerySupplied
                    => /\ ~Fetched'
                       /\ ~Navigated'
                       /\ UNCHANGED <<current_page, selected_index, history, scroll_offset,
                                      status_message>>]_vars
    /\ [][search_pending' /\ ~search_pending => FollowedKind({"7"})]_vars

(* The keyboard of a search on the Search item of a page reached through a   *)
(* link has been cancelled: the page and its selection are still there.      *)
C25_Witness ==
    /\ last_event.keyboard.called
    /\ last_event.keyboard.null
    /\ ~search_pending
    /\ ~Fetched
    /\ pending_search_item.type = "7"
    /\ selected_index = 5
    /\ current_page.items[6] = pending_search_item
    /\ history # <<>>

====
